---- MODULE Spec2Model ----
(***************************************************************************)
(* Model of the AIVA message router (src/modules/router.py) together with  *)
(* the parts of the tool registry (src/modules/tools.py) and of the        *)
(* provider registry (src/modules/ai.py) that Router.process drives.       *)
(*                                                                         *)
(* Texts are sequences of symbols.  In a user input or a backend response *)
(* a symbol is one character ("{", "}", the double quote, ":", ",", "/",   *)
(* " ", "\n") or a run of letters that holds none of those characters      *)
(* ("tool", "bash", "Sure", ...).  Everything the code does on characters  *)
(* (strip, startswith, split, brace counting, json.loads, json.dumps,      *)
(* str.replace) is done here on symbols.  A literal the router itself      *)
(* writes into a message is one symbol.                                    *)
(*                                                                         *)
(* router.py line 12 imports ToolExecutionError from modules.tools, which  *)
(* tools.py does not define.  The model assumes the name resolves to an    *)
(* exception class that no tool raises, so every tool fault reaches the    *)
(* "except Exception" clause of line 148.                                  *)
(***************************************************************************)
EXTENDS Integers, Sequences, FiniteSets, TLC

LB == "{"
RB == "}"
QT == "\""
COLON == ":"
COMMA == ","
SP == " "
NL == "\n"

\* str.strip() / json whitespace
Whitespace == {SP, NL}

(***************************************************************************)
(* String helpers (Python str methods on symbol sequences)                 *)
(***************************************************************************)
RECURSIVE LStrip(_)
LStrip(s) ==
    IF s # <<>> /\ Head(s) \in Whitespace THEN LStrip(Tail(s)) ELSE s

RECURSIVE RStrip(_)
RStrip(s) ==
    IF s # <<>> /\ s[Len(s)] \in Whitespace
    THEN RStrip(SubSeq(s, 1, Len(s) - 1))
    ELSE s

\* str.strip(' '): only spaces are removed
StripSpaces(s) ==
    LET kept == {i \in 1..Len(s) : s[i] # SP}
    IN  IF kept = {} THEN <<>>
        ELSE SubSeq(s, CHOOSE i \in kept : \A j \in kept : i <= j,
                       CHOOSE i \in kept : \A j \in kept : i >= j)

Strip(s) == RStrip(LStrip(s))

StartsWith(s, c) == s # <<>> /\ s[1] = c

EndsWith(s, c) == s # <<>> /\ s[Len(s)] = c

\* does sub occur in s at index i
OccursAt(s, sub, i) ==
    /\ i >= 1
    /\ i + Len(sub) - 1 <= Len(s)
    /\ SubSeq(s, i, i + Len(sub) - 1) = sub

Contains(s, sub) == \E i \in 1..Len(s) : OccursAt(s, sub, i)

\* str.replace(sub, ''): every non-overlapping occurrence, left to right
RECURSIVE ReplaceFrom(_, _, _)
ReplaceFrom(s, sub, i) ==
    IF i > Len(s) THEN <<>>
    ELSE IF OccursAt(s, sub, i) THEN ReplaceFrom(s, sub, i + Len(sub))
    ELSE <<s[i]>> \o ReplaceFrom(s, sub, i + 1)

Replace(s, sub) == IF sub = <<>> THEN s ELSE ReplaceFrom(s, sub, 1)

\* list[:n], the slice that keeps the oldest elements
FirstN(s, n) == IF Len(s) <= n THEN s ELSE SubSeq(s, 1, n)

\* list[-n:]
LastN(s, n) == IF Len(s) <= n THEN s ELSE SubSeq(s, Len(s) - n + 1, Len(s))

(***************************************************************************)
(* JSON values: [t |-> tag, v |-> payload].                                *)
(*   str  : v is the symbol sequence between the quotes                    *)
(*   null : v is <<>>                                                      *)
(*   num  : v is the one-symbol sequence of the literal                    *)
(*   obj  : v is the sequence of members [k |-> key symbols, val |-> value]*)
(*          in insertion order (a Python dict)                             *)
(***************************************************************************)
StrV(s) == [t |-> "str", v |-> s]
NullV == [t |-> "null", v |-> <<>>]
NumV(c) == [t |-> "num", v |-> <<c>>]
ObjV(ms) == [t |-> "obj", v |-> ms]

NumLits == {"0", "1"}

IsObj(x) == x.t = "obj"

\* key in dict
Has(x, key) == \E i \in 1..Len(x.v) : x.v[i].k = key

\* dict[key]
Get(x, key) == x.v[CHOOSE i \in 1..Len(x.v) : x.v[i].k = key].val

\* dict.get(key, default)
GetDefault(x, key, default) == IF Has(x, key) THEN Get(x, key) ELSE default

\* dict[key] = val: a repeated key keeps its position and takes the new value
Put(ms, key, val) ==
    IF \E i \in 1..Len(ms) : ms[i].k = key
    THEN [i \in 1..Len(ms) |->
            IF ms[i].k = key THEN [k |-> key, val |-> val] ELSE ms[i]]
    ELSE Append(ms, [k |-> key, val |-> val])

\* "is not None" in the place of truthiness
TruthyNotNone(x) == x.t # "null"

\* Python truthiness of a decoded value
Truthy(x) ==
    CASE x.t = "str" -> x.v # <<>>
      [] x.t = "null" -> FALSE
      [] x.t = "num" -> x.v # <<"0">>
      [] x.t = "obj" -> x.v # <<>>

(***************************************************************************)
(* json.loads                                                              *)
(***************************************************************************)
ParseFail == [ok |-> FALSE, val |-> NullV, pos |-> 0]

ParseOk(val, pos) == [ok |-> TRUE, val |-> val, pos |-> pos]

RECURSIVE SkipWS(_, _)
SkipWS(s, i) ==
    IF i <= Len(s) /\ s[i] \in Whitespace THEN SkipWS(s, i + 1) ELSE i

\* index of the quote that closes a string whose content starts at i, or 0
RECURSIVE ClosingQuote(_, _)
ClosingQuote(s, i) ==
    IF i > Len(s) THEN 0
    ELSE IF s[i] = QT THEN i
    ELSE ClosingQuote(s, i + 1)

\* s[i] is an opening quote
ParseString(s, i) ==
    LET j == ClosingQuote(s, i + 1)
    IN  IF j = 0 THEN ParseFail
        ELSE ParseOk(StrV(SubSeq(s, i + 1, j - 1)), j + 1)

RECURSIVE ParseValue(_, _)
RECURSIVE ParseMembers(_, _, _)

ParseValue(s, i) ==
    LET j == SkipWS(s, i)
    IN  IF j > Len(s) THEN ParseFail
        ELSE IF s[j] = QT THEN ParseString(s, j)
        ELSE IF s[j] = "null" THEN ParseOk(NullV, j + 1)
        ELSE IF s[j] \in NumLits THEN ParseOk(NumV(s[j]), j + 1)
        ELSE IF s[j] = LB THEN
            LET k == SkipWS(s, j + 1)
            IN  IF k <= Len(s) /\ s[k] = RB
                THEN ParseOk(ObjV(<<>>), k + 1)
                ELSE ParseMembers(s, k, <<>>)
        ELSE ParseFail

\* members of an object from index i (whitespace already skipped); ms holds
\* the members decoded so far
ParseMembers(s, i, ms) ==
    IF i > Len(s) \/ s[i] # QT THEN ParseFail
    ELSE
        LET key == ParseString(s, i)
        IN  IF ~key.ok THEN ParseFail
            ELSE
                LET c == SkipWS(s, key.pos)
                IN  IF c > Len(s) \/ s[c] # COLON THEN ParseFail
                    ELSE
                        LET val == ParseValue(s, c + 1)
                        IN  IF ~val.ok THEN ParseFail
                            ELSE
                                LET e == SkipWS(s, val.pos)
                                    ms2 == Put(ms, key.val.v, val.val)
                                IN  IF e > Len(s) THEN ParseFail
                                    ELSE IF s[e] = RB THEN ParseOk(ObjV(ms2), e + 1)
                                    ELSE IF s[e] = COMMA
                                        THEN ParseMembers(s, SkipWS(s, e + 1), ms2)
                                    ELSE ParseFail

\* json.loads(s): ok = FALSE stands for JSONDecodeError
Loads(s) ==
    LET r == ParseValue(s, 1)
    IN  IF r.ok /\ SkipWS(s, r.pos) > Len(s) THEN r ELSE ParseFail

(***************************************************************************)
(* json.dumps (default separators ", " and ": ")                           *)
(***************************************************************************)
RECURSIVE Dumps(_)
RECURSIVE DumpsMembers(_, _)

Dumps(x) ==
    CASE x.t = "str" -> <<QT>> \o x.v \o <<QT>>
      [] x.t = "null" -> <<"null">>
      [] x.t = "num" -> x.v
      [] x.t = "obj" -> <<LB>> \o DumpsMembers(x.v, 1) \o <<RB>>

DumpsMembers(ms, i) ==
    IF i > Len(ms) THEN <<>>
    ELSE <<QT>> \o ms[i].k \o <<QT, COLON, SP>> \o Dumps(ms[i].val)
         \o (IF i < Len(ms) THEN <<COMMA, SP>> ELSE <<>>)
         \o DumpsMembers(ms, i + 1)

(***************************************************************************)
(* json.dumps(result, indent=2) for a list of strings                      *)
(***************************************************************************)
RECURSIVE DumpsItems(_, _)
DumpsItems(xs, i) ==
    IF i > Len(xs) THEN <<>>
    ELSE <<SP, SP, QT, xs[i], QT>>
         \o (IF i < Len(xs) THEN <<COMMA, NL>> ELSE <<NL>>)
         \o DumpsItems(xs, i + 1)

DumpsIndent(xs) ==
    IF xs = <<>> THEN <<"[", "]">>
    ELSE <<"[", NL>> \o DumpsItems(xs, 1) \o <<"]">>

(***************************************************************************)
(* Router constants and messages                                           *)
(***************************************************************************)
MAX_HISTORY == 20

EMPTY_MSG == <<"Empty message">>
INVALID_CMD == <<"Unknown command">>
GEN_FAILED == <<"Generation failed">>
CLEARED == <<"History cleared">>
HELP == <<"help text">>
AI_NOT_FOUND == <<"AI provider not found">>
INVALID_TOOL == <<"Invalid tool format: 'tool' is required">>

TOOL == <<"tool">>
ARGS == <<"args">>

(***************************************************************************)
(* ProcessResult: a dict that holds 'success' and some of 'response',      *)
(* 'error', 'action'; keys is the set of the optional keys present.        *)
(***************************************************************************)
NoResult ==
    [success |-> FALSE, keys |-> {}, response |-> <<>>, error |-> <<>>,
     action |-> "none"]

Success(response) ==
    [success |-> TRUE, keys |-> {"response"}, response |-> response,
     error |-> <<>>, action |-> "none"]

\* a failure that also carries a response
FailureWithResponse(error) ==
    [success |-> FALSE, keys |-> {"error", "response"}, response |-> error,
     error |-> error, action |-> "none"]

Failure(error) ==
    [success |-> FALSE, keys |-> {"error"}, response |-> <<>>,
     error |-> error, action |-> "none"]

SuccessAction(action) ==
    [success |-> TRUE, keys |-> {"action"}, response |-> <<>>,
     error |-> <<>>, action |-> action]

Turn(role, content) == [role |-> role, content |-> content]

(***************************************************************************)
(* Router._extract_json_from_text                                          *)
(***************************************************************************)
NoToolCall == [found |-> FALSE, val |-> NullV, lo |-> 0, hi |-> 0]

FoundToolCall(val, lo, hi) == [found |-> TRUE, val |-> val, lo |-> lo, hi |-> hi]

\* the loop body from index i on; start_pos = 0 stands for the code's -1
RECURSIVE ExtractFrom(_, _, _, _)
ExtractFrom(text, i, brace_count, start_pos) ==
    IF i > Len(text) THEN NoToolCall
    ELSE IF text[i] = LB THEN
        ExtractFrom(text, i + 1, brace_count + 1,
                    IF brace_count = 0 THEN i ELSE start_pos)
    ELSE IF text[i] = RB THEN
        IF brace_count - 1 = 0 /\ start_pos # 0
        THEN LET potential_json == SubSeq(text, start_pos, i)
                 tool_call == Loads(potential_json)
             IN  IF tool_call.ok /\ IsObj(tool_call.val) /\ Has(tool_call.val, TOOL)
                 THEN FoundToolCall(tool_call.val, start_pos, i)
                 ELSE ExtractFrom(text, i + 1, 0, 0)
        ELSE ExtractFrom(text, i + 1, brace_count - 1, start_pos)
    ELSE ExtractFrom(text, i + 1, brace_count, start_pos)

\* an extraction that takes the text from the first '{' to the last '}'
ExtractJsonFromTextGreedy(text) ==
    LET opens == {i \in 1..Len(text) : text[i] = LB}
        closes == {i \in 1..Len(text) : text[i] = RB}
    IN  IF opens = {} \/ closes = {} THEN NoToolCall
        ELSE LET lo == CHOOSE i \in opens : \A j \in opens : i <= j
                 hi == CHOOSE i \in closes : \A j \in closes : j <= i
                 tool_call == IF lo < hi THEN Loads(SubSeq(text, lo, hi))
                              ELSE ParseFail
             IN  IF tool_call.ok /\ IsObj(tool_call.val) /\ Has(tool_call.val, TOOL)
                 THEN FoundToolCall(tool_call.val, lo, hi)
                 ELSE NoToolCall

ExtractJsonFromText(text) == ExtractFrom(text, 1, 0, 0)

(***************************************************************************)
(* Router.process, lines 93-107: the tool call found in a response         *)
(***************************************************************************)
\* response.strip().startswith('{') and response.strip().endswith('}')
LooksLikeJson(response) ==
    StartsWith(Strip(response), LB) /\ EndsWith(Strip(response), RB)

\* tool_call after lines 94-104
FindToolCall(response) ==
    LET direct == IF LooksLikeJson(response) THEN Loads(response) ELSE ParseFail
    IN  IF direct.ok /\ Truthy(direct.val)
        THEN FoundToolCall(direct.val, 0, 0)
        ELSE ExtractJsonFromText(response)

\* line 107 without the test of the 'tool' field
IsToolCallAnyObject(tc) == tc.found /\ Truthy(tc.val) /\ IsObj(tc.val)

\* the condition of line 107
IsToolCall(tc) == tc.found /\ Truthy(tc.val) /\ IsObj(tc.val) /\ Has(tc.val, TOOL)


(***************************************************************************)
(* ToolManager: the registry and the keyword-only signature of each tool.  *)
(* kind is the type of the value the tool returns.                         *)
(***************************************************************************)
Sig(req, opt, kind) == [req |-> req, opt |-> opt, kind |-> kind]

ToolNames ==
    {"bash", "read_file", "write_file", "read_csv", "write_csv", "list_dir",
     "gmail_list", "gmail_send"}

ToolSig(name) ==
    CASE name = "bash" -> Sig({<<"cmd">>}, {}, "str")
      [] name = "read_file" -> Sig({<<"path">>}, {}, "str")
      [] name = "write_file" -> Sig({<<"path">>, <<"content">>}, {}, "str")
      [] name = "read_csv" -> Sig({<<"path">>}, {}, "list")
      [] name = "write_csv" -> Sig({<<"path">>, <<"data">>}, {}, "str")
      [] name = "list_dir" -> Sig({<<"path">>}, {<<"recursive">>}, "list")
      [] name = "gmail_list" -> Sig({}, {<<"max_results">>}, "str")
      [] name = "gmail_send" -> Sig({<<"to">>, <<"subject">>, <<"body">>}, {}, "str")

\* tool_name in self.tools
Registered(tool_name) ==
    tool_name.t = "str" /\ Len(tool_name.v) = 1 /\ tool_name.v[1] \in ToolNames

Keys(x) == {x.v[i].k : i \in 1..Len(x.v)}

\* what a tool can return: a string (possibly empty) or a list of strings;
\* the environment picks one of two values of the tool's kind
StrResult(s) == [kind |-> "str", str |-> s, list |-> <<>>]
ListResult(xs) == [kind |-> "list", str |-> <<>>, list |-> xs]

ResultChoices == {1, 2}

ToolResult(kind, choice) ==
    IF kind = "list"
    THEN (IF choice = 1 THEN ListResult(<<"a", "b">>) ELSE ListResult(<<>>))
    ELSE (IF choice = 1 THEN StrResult(<<"out">>) ELSE StrResult(<<>>))

\* line 118
ResultStr(result) ==
    IF result.kind = "list" THEN DumpsIndent(result.list) ELSE result.str

(***************************************************************************)
(* self.tools.execute(tool_name, **tool_args), line 116.  fault says       *)
(* whether the handler raises.  err is "" when the call returns and names  *)
(* the exception otherwise; ran says whether the handler was entered.      *)
(***************************************************************************)
Execute(tool_name, tool_args, fault) ==
    IF ~IsObj(tool_args)
    THEN [err |-> "argument after ** must be a mapping", ran |-> FALSE]
    ELSE IF ~Registered(tool_name)
    THEN [err |-> "Tool not available", ran |-> FALSE]
    ELSE LET sig == ToolSig(tool_name.v[1])
         IN  IF ~(sig.req \subseteq Keys(tool_args)
                  /\ Keys(tool_args) \subseteq sig.req \cup sig.opt)
             THEN [err |-> "missing or unexpected keyword argument", ran |-> FALSE]
             ELSE IF fault
             THEN [err |-> "tool fault", ran |-> TRUE]
             ELSE [err |-> "", ran |-> TRUE]

TOOL_ERROR(err) == <<"Error processing tool call: ", err>>

\* str(tool_name) inside an f-string
NameText(tool_name) == IF tool_name.t = "str" THEN tool_name.v ELSE Dumps(tool_name)

\* line 130
ToolResultTurn(name, tool_result_str) ==
    <<"Tool '">> \o name \o <<"' result: ">> \o tool_result_str

\* line 135
DirectAnswer(text_response, tool_result_str) ==
    text_response \o <<"\n\nTool result: ">> \o tool_result_str

\* line 138
SummaryPrompt(name, tool_result_str) ==
    <<"The tool '">> \o name \o <<"' returned: ">> \o tool_result_str
    \o <<"\nProvide a helpful summary.">>

\* the serialized request removed from every response
TextResponseResidual(response, tool_call) ==
    Strip(Replace(response, Dumps(tool_call)))

\* lines 121-125
TextResponse(response, tool_call) ==
    IF LooksLikeJson(response) THEN response
    ELSE Strip(Replace(response, Dumps(tool_call)))

\* a slice that keeps two turns too many
ManageHistoryLoose(h) ==
    IF Len(h) > MAX_HISTORY THEN LastN(h, MAX_HISTORY + 2) ELSE h

\* Router._manage_history
ManageHistory(h) ==
    IF Len(h) > MAX_HISTORY THEN LastN(h, MAX_HISTORY) ELSE h

(***************************************************************************)
(* Router.process from the return of the first generate call (line 91) to  *)
(* the return of the call or to the second generate call (line 137).       *)
(*   result    the ProcessResult, when the call returns here               *)
(*   staged    the turns appended by line 127                              *)
(*   final     the turns appended by line 142 or line 153                  *)
(*   summarize TRUE when line 137 is reached                               *)
(*   executed  the names handed to ToolManager.execute                     *)
(*   tool_ok   TRUE when ToolManager.execute returned a value              *)
(***************************************************************************)
Handled(result, staged, final, summarize, executed, tool_ok, tool_name, tool_args, tool_result_str, text_response) ==
    [result |-> result, staged |-> staged, final |-> final,
     summarize |-> summarize, executed |-> executed, tool_ok |-> tool_ok,
     tool_name |-> tool_name, tool_args |-> tool_args,
     tool_result_str |-> tool_result_str, text_response |-> text_response]

\* the response stripped before it is recorded and returned
PlainAnswerStripped(text, response) ==
    Handled(Success(Strip(response)),
            <<>>, <<Turn("user", text), Turn("assistant", Strip(response))>>,
            FALSE, <<>>, FALSE, <<>>, <<>>, <<>>, <<>>)

\* lines 153-158
PlainAnswer(text, response) ==
    Handled(Success(response),
            <<>>, <<Turn("user", text), Turn("assistant", response)>>,
            FALSE, <<>>, FALSE, <<>>, <<>>, <<>>, <<>>)

\* line 113
InvalidTool(name, args) ==
    Handled(Failure(INVALID_TOOL), <<>>, <<>>, FALSE, <<>>, FALSE,
            name, args, <<>>, <<>>)

\* the failed attempt recorded up through the assistant's request turn
ToolFailureRecorded(text, response, name, args, err) ==
    Handled(Failure(TOOL_ERROR(err)), <<>>,
            <<Turn("user", text), Turn("assistant", response)>>,
            FALSE, <<name>>, FALSE, name, args, <<>>, <<>>)

\* lines 148-150 after a fault of line 116: nothing was appended yet
ToolFailure(text, response, name, args, err) ==
    Handled(Failure(TOOL_ERROR(err)), <<>>, <<>>, FALSE, <<name>>, FALSE,
            name, args, <<>>, <<>>)

\* the tool result recorded before the request that produced it
StagedResultFirst(text, response, name, tool_result_str) ==
    <<Turn("user", text),
      Turn("user", ToolResultTurn(name, tool_result_str)),
      Turn("assistant", response)>>

\* lines 127-131
Staged(text, response, name, tool_result_str) ==
    <<Turn("user", text),
      Turn("assistant", response),
      Turn("user", ToolResultTurn(name, tool_result_str))>>

\* a tool turn that always asks the backend for a summary
ToolSuccessSummarized(text, response, tool_call, name, args, result) ==
    Handled(NoResult, Staged(text, response, name, ResultStr(result)), <<>>,
            TRUE, <<name>>, TRUE, name, args, ResultStr(result), <<>>)

\* lines 118-144 once the tool has returned result
ToolSuccess(text, response, tool_call, name, args, result) ==
    LET tool_result_str == ResultStr(result)
        text_response == TextResponse(response, tool_call)
        staged == Staged(text, response, name, tool_result_str)
        final_response == DirectAnswer(text_response, tool_result_str)
    IN  IF text_response # <<>>
        THEN Handled(Success(final_response), staged,
                     <<Turn("assistant", final_response)>>,
                     FALSE, <<name>>, TRUE, name, args,
                     tool_result_str, text_response)
        ELSE Handled(NoResult, staged, <<>>, TRUE, <<name>>, TRUE,
                     name, args, tool_result_str, text_response)

\* lines 107-150
HandleToolCall(text, response, tool_call, fault, choice) ==
    LET tool_name == GetDefault(tool_call, TOOL, NullV)
        tool_args == GetDefault(tool_call, ARGS, ObjV(<<>>))
        name == NameText(tool_name)
        args == Dumps(tool_args)
        ex == Execute(tool_name, tool_args, fault)
    IN  IF ~Truthy(tool_name) THEN InvalidTool(name, args)
        ELSE IF ex.err # "" THEN ToolFailure(text, response, name, args, ex.err)
        ELSE ToolSuccess(text, response, tool_call, name, args,
                         ToolResult(ToolSig(tool_name.v[1]).kind, choice))

\* the response makes line 116 enter the handler of a registered tool
HandlerEntered(response) ==
    LET tc == FindToolCall(response)
    IN  /\ IsToolCall(tc)
        /\ Truthy(GetDefault(tc.val, TOOL, NullV))
        /\ Execute(GetDefault(tc.val, TOOL, NullV),
                   GetDefault(tc.val, ARGS, ObjV(<<>>)), FALSE).ran

\* the name handed to ToolManager.execute
RequestedTool(response) ==
    NameText(GetDefault(FindToolCall(response).val, TOOL, NullV))

\* lines 93-158
HandleResponse(text, response, fault, choice) ==
    LET tc == FindToolCall(response)
    IN  IF IsToolCall(tc)
        THEN HandleToolCall(text, response, tc.val, fault, choice)
        ELSE PlainAnswer(text, response)

(***************************************************************************)
(* Router.handle_command: parsing                                          *)
(***************************************************************************)
\* str.split(): the whitespace-separated words of s
RECURSIVE SplitFrom(_, _, _)
SplitFrom(s, i, word) ==
    IF i > Len(s) THEN (IF word = <<>> THEN <<>> ELSE <<word>>)
    ELSE IF s[i] \in Whitespace
         THEN (IF word = <<>> THEN <<>> ELSE <<word>>) \o SplitFrom(s, i + 1, <<>>)
         ELSE SplitFrom(s, i + 1, Append(word, s[i]))

Split(s) == SplitFrom(s, 1, <<>>)

\* str.lower() of one symbol
LowerSym(c) ==
    CASE c = "CLEAR" -> "clear"
      [] c = "Help" -> "help"
      [] c = "OpenAI" -> "openai"
      [] c = "OLLAMA" -> "ollama"
      [] OTHER -> c

Lower(word) == [i \in 1..Len(word) |-> LowerSym(word[i])]

\* ', '.join(names)
RECURSIVE JoinFrom(_, _)
JoinFrom(names, i) ==
    IF i > Len(names) THEN <<>>
    ELSE names[i] \o (IF i < Len(names) THEN <<", ">> ELSE <<>>)
         \o JoinFrom(names, i + 1)

Join(names) == JoinFrom(names, 1)

(***************************************************************************)
(* AIManager                                                               *)
(***************************************************************************)
\* default_ai of DEFAULT_CONFIG
DEFAULT_AI == "ollama"

\* the order of provider_configs in AIManager.initialize
ProviderOrder == <<"openai", "gemini", "ollama">>

\* an initialize that gives up when one construction fails
InitializeAllOrNothing(configured, failing, default_ai) ==
    LET wanted == SelectSeq(ProviderOrder,
                            LAMBDA p : p \in configured \cup {"ollama"})
        registered == IF \E i \in 1..Len(wanted) : wanted[i] \in failing
                      THEN <<>> ELSE wanted
    IN  [ok |-> registered # <<>>, providers |-> registered,
         current |-> IF registered = <<>> THEN ""
                     ELSE IF \E i \in 1..Len(registered) : registered[i] = default_ai
                     THEN default_ai
                     ELSE registered[1]]

\* AIManager.initialize: ollama is always configured; the construction of
\* the providers in failing raises; ok is FALSE when line 335 raises, and
\* current is then still None
Initialize(configured, failing, default_ai) ==
    LET registered == SelectSeq(ProviderOrder,
                                LAMBDA p : p \in (configured \cup {"ollama"}) \ failing)
    IN  [ok |-> registered # <<>>, providers |-> registered,
         current |-> IF registered = <<>> THEN ""
                     ELSE IF \E i \in 1..Len(registered) : registered[i] = default_ai
                     THEN default_ai
                     ELSE registered[1]]

\* AIManager.cleanup: the providers in raising raise in their cleanup;
\* attempted are the providers whose cleanup was called, errors the ones
\* logged at line 412, raised says whether cleanup itself raises
RECURSIVE CleanupFrom(_, _, _)
CleanupFrom(ps, i, raising) ==
    IF i > Len(ps) THEN [attempted |-> <<>>, errors |-> <<>>, raised |-> FALSE]
    ELSE LET rest == CleanupFrom(ps, i + 1, raising)
         IN  [attempted |-> <<ps[i]>> \o rest.attempted,
              errors |-> (IF ps[i] \in raising THEN <<ps[i]>> ELSE <<>>) \o rest.errors,
              raised |-> rest.raised]

\* a cleanup that lets the first failure through
CleanupUncaught(ps, raising) ==
    LET bad == {i \in 1..Len(ps) : ps[i] \in raising}
        stop == IF bad = {} THEN Len(ps) ELSE CHOOSE i \in bad : \A j \in bad : i <= j
    IN  [attempted |-> SubSeq(ps, 1, stop), errors |-> <<>>, raised |-> bad # {}]

Cleanup(ps, raising) == CleanupFrom(ps, 1, raising)

\* a switch that takes any name
SwitchProviderUnchecked(ps, cur, provider) ==
    [returned |-> TRUE, current |-> provider]

\* AIManager.switch_provider: the value it returns and self.current after it
SwitchProvider(ps, cur, provider) ==
    IF \E i \in 1..Len(ps) : ps[i] = provider
    THEN [returned |-> TRUE, current |-> provider]
    ELSE [returned |-> FALSE, current |-> cur]

\* any one-word name taken for a provider
IsProviderAny(ps, word) == Len(word) = 1

\* provider in self.providers, for a word of the command line
IsProvider(ps, word) ==
    Len(word) = 1 /\ \E i \in 1..Len(ps) : ps[i] = word[1]

(***************************************************************************)
(* State                                                                   *)
(***************************************************************************)
VARIABLES
    history,    \* Router.history: the turns of each session id
    known,      \* the keys of Router.history
    providers,  \* AIManager.providers, in registration order
    current,    \* AIManager.current
    tasks,      \* the Router.process calls: position and local variables
    calls,      \* number of Router.process calls made so far
    app,        \* AIVA.run: its phase, the running flags, the last cleanup
    env         \* what the users and the backend of this run can send

vars == <<history, known, providers, current, tasks, calls, app, env>>

\* no switch_provider call and no cleanup made yet
NoSwitch == [called |-> FALSE, name |-> "", from |-> "", returned |-> FALSE]

NoCleanup ==
    [called |-> FALSE, raising |-> {}, attempted |-> <<>>, errors |-> <<>>,
     raised |-> FALSE]

\* the application with its interfaces started (AIVA.run at line 256):
\* the three running flags are separate attributes of AIVA, Console and
\* TelegramBot
Serving ==
    [phase |-> "serving", aiva_running |-> TRUE, console_running |-> TRUE,
     telegram_running |-> TRUE, switch |-> NoSwitch, cleanup |-> NoCleanup]

\* the call and the Result an adapter task had before the current one
NoCall == [text |-> <<>>, result |-> NoResult]

\* nothing handled yet
NoHandled ==
    Handled(NoResult, <<>>, <<>>, FALSE, <<>>, FALSE, <<>>, <<>>, <<>>, <<>>)

\* a call slot with no call in it; exits says whether the tool the call is
\* executing returns or raises at all, and pending is what the router then
\* does with what the tool does; id numbers the calls that reach
\* line 91 and inflight holds the calls that were awaiting the backend when
\* this one started
IdleTask ==
    [pc |-> "idle", id |-> 0, inflight |-> {}, uid |-> "", input |-> <<>>, text |-> <<>>, response |-> <<>>,
     exits |-> TRUE, pending |-> NoHandled, last |-> NoCall,
     tool_name |-> <<>>, tool_args |-> <<>>, tool_result_str |-> <<>>,
     text_response |-> <<>>, result |-> NoResult,
     generated |-> <<>>, executed |-> <<>>, tool_ok |-> FALSE, appended |-> <<>>,
     before |-> <<>>, after |-> <<>>, failed |-> FALSE]

\* a call served by the configured default provider
GenerateDefault(message, h) ==
    [provider |-> DEFAULT_AI, message |-> message, history |-> h]

\* one call of AIManager.generate: the provider read at line 364 and the
\* arguments
Generate(message, h) == [provider |-> current, message |-> message, history |-> h]

Returned(t, uid, text, result) ==
    [IdleTask EXCEPT !.pc = "done", !.uid = uid, !.text = text,
                     !.result = result, !.before = history[uid],
                     !.last = tasks[t].last]

\* subprocess.run and the other handlers are called on the thread of the
\* event loop: while one of them runs, no coroutine takes a step
Blocked == \E t \in DOMAIN tasks : tasks[t].pc = "executing"

\* the calls suspended at an await of a generate call
InFlight == {tasks[t].id : t \in {u \in DOMAIN tasks : tasks[u].pc \in {"generate", "summarize"}}}

(***************************************************************************)
(* Command handlers                                                        *)
(***************************************************************************)
\* cmd_quit and cmd_help are declared @staticmethod with a self parameter;
\* the table of __init__ holds them unbound, so handler(args, uid) lacks one
\* argument and raises TypeError, which handle_command turns into a failure
COMMAND_FAILED(cmd) == <<"Command failed: ", cmd, "() missing 1 required positional argument: 'uid'">>

\* the TypeError of the handler call not caught by handle_command
CmdQuitUncaught(t, uid, text) ==
    /\ tasks' = [tasks EXCEPT ![t] =
                    [Returned(t, uid, text, NoResult)
                        EXCEPT !.pc = "raised", !.after = history[uid]]]
    /\ UNCHANGED <<history, known, current>>

CmdQuit(t, uid, text) ==
    /\ tasks' = [tasks EXCEPT ![t] =
                    [Returned(t, uid, text, Failure(COMMAND_FAILED("Router.cmd_quit")))
                        EXCEPT !.after = history[uid]]]
    /\ UNCHANGED <<history, known, current>>

CmdHelp(t, uid, text) ==
    /\ tasks' = [tasks EXCEPT ![t] =
                    [Returned(t, uid, text, Failure(COMMAND_FAILED("Router.cmd_help")))
                        EXCEPT !.after = history[uid]]]
    /\ UNCHANGED <<history, known, current>>

\* a clear that refuses a session id it has not seen
CmdClearSeen(t, uid, text) ==
    /\ history' = [history EXCEPT ![uid] = <<>>]
    /\ tasks' = [tasks EXCEPT ![t] =
            Returned(t, uid, text,
                     IF uid \in known THEN Success(CLEARED) ELSE Failure(INVALID_CMD))]
    /\ UNCHANGED <<known, current>>

CmdClear(t, uid, text) ==
    /\ history' = [history EXCEPT ![uid] = <<>>]
    /\ tasks' = [tasks EXCEPT ![t] = Returned(t, uid, text, Success(CLEARED))]
    /\ UNCHANGED <<known, current>>

CmdAi(t, uid, text, args) ==
    IF args = <<>>
    THEN /\ tasks' = [tasks EXCEPT ![t] =
                [Returned(t, uid, text,
                    Success(<<"Current: ", current, "\nAvailable: ">>
                            \o Join([i \in 1..Len(providers) |->
                                       IF providers[i] = current
                                       THEN <<"[", providers[i], "]">>
                                       ELSE <<providers[i]>>])))
                 EXCEPT !.after = history[uid]]]
         /\ UNCHANGED <<history, known, current>>
    ELSE LET provider_name == Lower(args[1])
         IN  IF IsProvider(providers, provider_name)
             THEN /\ current' = provider_name[1]
                  /\ tasks' = [tasks EXCEPT ![t] =
                        [Returned(t, uid, text,
                                  Success(<<"Switched to ">> \o provider_name))
                         EXCEPT !.after = history[uid]]]
                  /\ UNCHANGED <<history, known>>
             ELSE /\ tasks' = [tasks EXCEPT ![t] =
                        [Returned(t, uid, text,
                                  Failure(AI_NOT_FOUND \o <<". Available: ">>
                                          \o Join([i \in 1..Len(providers) |->
                                                     <<providers[i]>>])))
                         EXCEPT !.after = history[uid]]]
                  /\ UNCHANGED <<history, known, current>>

\* Router.handle_command(text[1:], uid)
HandleCommand(t, uid, text) ==
    LET parts == Split(Tail(text))
        cmd == IF parts # <<>> THEN Lower(parts[1]) ELSE <<>>
        args == IF parts # <<>> THEN Tail(parts) ELSE <<>>
    IN  CASE cmd = <<"quit">> -> CmdQuit(t, uid, text)
          [] cmd = <<"clear">> -> CmdClear(t, uid, text)
          [] cmd = <<"ai">> -> CmdAi(t, uid, text, args)
          [] cmd = <<"help">> -> CmdHelp(t, uid, text)
          [] OTHER ->
                /\ tasks' = [tasks EXCEPT ![t] =
                        [Returned(t, uid, text, Failure(INVALID_CMD))
                            EXCEPT !.after = history[uid]]]
                /\ UNCHANGED <<history, known, current>>

(***************************************************************************)
(* Router.process                                                          *)
(***************************************************************************)
\* lines 80-91: a call starts, with one of the inputs and session ids of
\* the run; it returns at once (empty input, command) or reaches the first
\* generate call.  The slots are interchangeable: a call takes the first
\* free one
Process(t) ==
    /\ ~Blocked
    /\ app.phase = "serving"
    /\ tasks[t].pc = "idle"
    /\ \A u \in 1..(t - 1) : tasks[u].pc # "idle"
    /\ calls < env.maxcalls
    /\ calls' = calls + 1
    /\ \E uid \in {u \in env.uids : u = "console" => app.console_running},
          input \in env.inputs :
          LET text == Strip(input)
          IN  IF text = <<>>
              THEN /\ tasks' = [tasks EXCEPT ![t] =
                        [Returned(t, uid, text, Failure(EMPTY_MSG))
                            EXCEPT !.after = history[uid], !.input = input]]
                   /\ UNCHANGED <<history, known, current>>
              ELSE IF StartsWith(text, "/")
              THEN HandleCommand(t, uid, text)
              ELSE /\ known' = known \cup {uid}
                   /\ tasks' = [tasks EXCEPT ![t] =
                        [IdleTask EXCEPT !.pc = "generate", !.uid = uid,
                                         !.input = input, !.text = text,
                                         !.id = calls + 1, !.inflight = InFlight,
                                         !.last = tasks[t].last,
                                         !.generated = <<Generate(text, history[uid])>>]]
                   /\ UNCHANGED <<history, current>>
    /\ UNCHANGED <<providers, app, env>>

\* the turns kept in one list that every session shares
ResumeShared(t, response, h) ==
    \E after \in {IF h.summarize
                  THEN history[tasks[t].uid] \o h.staged
                  ELSE IF h.staged \o h.final # <<>>
                  THEN ManageHistory(history[tasks[t].uid] \o h.staged \o h.final)
                  ELSE history[tasks[t].uid]} :
        /\ history' = [uid \in DOMAIN history |-> after]
        /\ tasks' = [tasks EXCEPT ![t] =
              [@ EXCEPT !.pc = IF h.summarize THEN "summarize" ELSE "done",
                        !.response = response,
                        !.tool_name = h.tool_name,
                        !.tool_args = h.tool_args,
                        !.tool_result_str = h.tool_result_str,
                        !.text_response = h.text_response,
                        !.result = h.result,
                        !.generated =
                            IF h.summarize
                            THEN Append(@, Generate(SummaryPrompt(h.tool_name,
                                                                  h.tool_result_str),
                                                    after))
                            ELSE @,
                        !.executed = h.executed,
                        !.tool_ok = h.tool_ok,
                        !.appended = h.staged \o h.final,
                        !.pending = NoHandled,
                        !.before = history[tasks[t].uid],
                        !.after = after]]

\* lines 118-158: the call appends its turns and returns, or goes on to the
\* second generate call
Resume(t, response, h) ==
    \E after \in {IF h.summarize
                  THEN history[tasks[t].uid] \o h.staged
                  ELSE IF h.staged \o h.final # <<>>
                  THEN ManageHistory(history[tasks[t].uid] \o h.staged \o h.final)
                  ELSE history[tasks[t].uid]} :
        /\ history' = [history EXCEPT ![tasks[t].uid] = after]
        /\ tasks' = [tasks EXCEPT ![t] =
              [@ EXCEPT !.pc = IF h.summarize THEN "summarize" ELSE "done",
                        !.response = response,
                        !.tool_name = h.tool_name,
                        !.tool_args = h.tool_args,
                        !.tool_result_str = h.tool_result_str,
                        !.text_response = h.text_response,
                        !.result = h.result,
                        !.generated =
                            IF h.summarize
                            THEN Append(@, Generate(SummaryPrompt(h.tool_name,
                                                                  h.tool_result_str),
                                                    after))
                            ELSE @,
                        !.executed = h.executed,
                        !.tool_ok = h.tool_ok,
                        !.appended = h.staged \o h.final,
                        !.pending = NoHandled,
                        !.before = history[tasks[t].uid],
                        !.after = after]]

\* lines 91-158: the first generate call returns response; fault and choice
\* are what the tool does if the response makes the router run one
FirstReturn(t, response, fault, choice) ==
    \E h \in {HandleResponse(tasks[t].text, response, fault, choice)} :
        Resume(t, response, h)

\* lines 137-144: the second generate call returns the summary
SummaryReturn(t, final_response) ==
    \E after \in {ManageHistory(Append(history[tasks[t].uid],
                                       Turn("assistant", final_response)))} :
        /\ history' = [history EXCEPT ![tasks[t].uid] = after]
        /\ tasks' = [tasks EXCEPT ![t] =
              [@ EXCEPT !.pc = "done",
                        !.result = Success(final_response),
                        !.appended = Append(@, Turn("assistant", final_response)),
                        !.after = after]]

\* line 116 enters the handler of the requested tool, which runs on the
\* thread of the event loop; only a shell command may never exit
EnterHandler(t, response, fault, choice, exits) ==
    /\ tasks' = [tasks EXCEPT ![t] =
            [@ EXCEPT !.pc = "executing", !.response = response,
                      !.tool_name = RequestedTool(response),
                      !.pending = HandleResponse(tasks[t].text, response,
                                                 fault, choice),
                      !.exits = exits \/ RequestedTool(response) # <<"bash">>]]
    /\ UNCHANGED history

\* a generate call of the turn returns a text
GenerateReturn(t) ==
    /\ ~Blocked
    /\ tasks[t].pc \in {"generate", "summarize"}
    /\ \E response \in env.responses, fault \in env.faults, choice \in env.results,
          exits \in env.exits :
          IF tasks[t].pc = "summarize"
          THEN SummaryReturn(t, response)
          ELSE IF HandlerEntered(response)
          THEN EnterHandler(t, response, fault, choice, exits)
          ELSE FirstReturn(t, response, fault, choice)
    /\ UNCHANGED <<known, providers, current, calls, app, env>>

\* the handler returns or raises and the call goes on to its return or to
\* the second generate call
ToolReturn(t) ==
    /\ tasks[t].pc = "executing"
    /\ tasks[t].exits
    /\ Resume(t, tasks[t].response, tasks[t].pending)
    /\ UNCHANGED <<known, providers, current, calls, app, env>>

\* the user turn recorded before the backend is called
GenerateRaiseStaged(t) ==
    /\ ~Blocked
    /\ tasks[t].pc \in {"generate", "summarize"}
    /\ \E after \in {Append(history[tasks[t].uid], Turn("user", tasks[t].text))} :
          /\ history' = [history EXCEPT ![tasks[t].uid] = after]
          /\ tasks' = [tasks EXCEPT ![t] =
                [@ EXCEPT !.pc = "done", !.result = Failure(GEN_FAILED),
                          !.failed = TRUE,
                          !.appended = <<Turn("user", tasks[t].text)>>,
                          !.before = history[tasks[t].uid],
                          !.after = after]]
    /\ UNCHANGED <<known, providers, current, calls, app, env>>

\* a generate call of the turn raises: the first one is caught by lines
\* 159-161, the second one (line 137) by lines 148-150, after line 127
GenerateRaise(t) ==
    /\ ~Blocked
    /\ tasks[t].pc \in {"generate", "summarize"}
    /\ tasks' = [tasks EXCEPT ![t] =
            IF tasks[t].pc = "generate"
            THEN [@ EXCEPT !.pc = "done", !.result = Failure(GEN_FAILED),
                           !.failed = TRUE,
                           !.before = history[tasks[t].uid],
                           !.after = history[tasks[t].uid]]
            ELSE [@ EXCEPT !.pc = "done",
                           !.result = Failure(TOOL_ERROR("generation fault")),
                           !.failed = TRUE,
                           !.after = history[tasks[t].uid]]]
    /\ UNCHANGED <<history, known, providers, current, calls, app, env>>

\* the adapter takes the ProcessResult: the loop of Console.run goes on to
\* its next input (env.loop), a Telegram update handler ends; the console
\* clears its running flag on a successful Result whose action is quit
Deliver(t) ==
    /\ ~Blocked
    /\ tasks[t].pc = "done"
    /\ tasks' = [tasks EXCEPT ![t] =
            IF env.loop
            THEN [IdleTask EXCEPT !.last = [text |-> tasks[t].text,
                                            result |-> tasks[t].result]]
            ELSE IdleTask]
    /\ app' = IF /\ tasks[t].uid = "console"
                 /\ tasks[t].result.success
                 /\ tasks[t].result.action = "quit"
              THEN [app EXCEPT !.console_running = FALSE]
              ELSE app
    /\ UNCHANGED <<history, known, providers, current, calls, env>>

\* AIVA.run, lines 231-256: the providers are initialized; with at least one
\* of them the router is built and the interface tasks are started,
\* otherwise initialize raises and run goes to its finally clause
Startup ==
    /\ app.phase = "start"
    /\ \E r \in {Initialize(env.configured, env.failing, env.default_ai)} :
          /\ providers' = r.providers
          /\ current' = r.current
          /\ app' = [app EXCEPT !.phase = IF r.ok THEN "serving" ELSE "failed"]
    /\ UNCHANGED <<history, known, tasks, calls, env>>

\* AIVA.signal_handler, installed for SIGINT and SIGTERM at lines 227-229:
\* it clears AIVA.running and returns.  It replaces the default handlers, so
\* a signal raises no KeyboardInterrupt and does not end the process, and
\* nothing reads AIVA.running: the loops test Console.running (console.py
\* line 105) and TelegramBot.running (telegram_bot.py line 76)
SignalHandler ==
    /\ app.phase \in {"start", "serving", "failed"}
    /\ app' = [app EXCEPT !.aiva_running = FALSE]
    /\ UNCHANGED <<history, known, providers, current, tasks, calls, env>>

\* Console.run has left its loop (line 105) and no call of it is open
ConsoleReturned ==
    /\ ~app.console_running
    /\ \A t \in DOMAIN tasks : tasks[t].pc = "idle"

\* TelegramBot.run is not started or has left its loop (line 76)
TelegramReturned == ~env.telegram \/ ~app.telegram_running

\* asyncio.gather at line 253 returns when every interface task has
GatherReturned == ConsoleReturned /\ TelegramReturned

\* AIVA.run, lines 257-262: the finally clause, reached when initialize
\* raised or when gather returned; the providers in raising raise in their
\* cleanup
Finally ==
    /\ \/ app.phase = "failed"
       \/ app.phase = "serving" /\ GatherReturned
    /\ \E raising \in SUBSET {providers[i] : i \in 1..Len(providers)} :
          \E c \in {Cleanup(providers, raising)} :
            app' = [app EXCEPT !.phase = "exited",
                               !.cleanup = [called |-> TRUE, raising |-> raising,
                                            attempted |-> c.attempted,
                                            errors |-> c.errors,
                                            raised |-> c.raised]]
    /\ UNCHANGED <<history, known, providers, current, tasks, calls, env>>

\* a call of AIManager.switch_provider
SwitchProviderCall(provider) ==
    /\ app.phase = "serving"
    /\ \E r \in {SwitchProvider(providers, current, provider)} :
          /\ current' = r.current
          /\ app' = [app EXCEPT !.switch = [called |-> TRUE, name |-> provider,
                                            from |-> current,
                                            returned |-> r.returned]]
    /\ UNCHANGED <<history, known, providers, tasks, calls, env>>

\* a call of AIManager.cleanup
CleanupCall(raising) ==
    /\ app.phase = "serving"
    /\ \E c \in {Cleanup(providers, raising)} :
          app' = [app EXCEPT !.cleanup = [called |-> TRUE, raising |-> raising,
                                         attempted |-> c.attempted,
                                         errors |-> c.errors,
                                         raised |-> c.raised]]
    /\ UNCHANGED <<history, known, providers, current, tasks, calls, env>>

(***************************************************************************)
(* The environment of a run: user inputs and backend responses             *)
(***************************************************************************)
Sessions == {"console", "42"}

Member(key, val) == [k |-> key, val |-> val]

\* request objects a backend can emit
BashLs == ObjV(<<Member(TOOL, StrV(<<"bash">>)),
                 Member(ARGS, ObjV(<<Member(<<"cmd">>, StrV(<<"ls">>))>>))>>)
ListDir == ObjV(<<Member(TOOL, StrV(<<"list_dir">>)),
                  Member(ARGS, ObjV(<<Member(<<"path">>, StrV(<<"p">>))>>))>>)
BashBrace == ObjV(<<Member(TOOL, StrV(<<"bash">>)),
                    Member(ARGS, ObjV(<<Member(<<"cmd">>, StrV(<<"echo", SP, RB>>))>>))>>)
Nope == ObjV(<<Member(TOOL, StrV(<<"nope">>))>>)
BashNoArgs == ObjV(<<Member(TOOL, StrV(<<"bash">>))>>)
BashStrArgs == ObjV(<<Member(TOOL, StrV(<<"bash">>)), Member(ARGS, StrV(<<"ls">>))>>)
BashNullArgs == ObjV(<<Member(TOOL, StrV(<<"bash">>)), Member(ARGS, NullV)>>)
EmptyTool == ObjV(<<Member(TOOL, StrV(<<>>))>>)
NullTool == ObjV(<<Member(TOOL, NullV)>>)
NoTool == ObjV(<<Member(<<"a">>, StrV(<<"b">>))>>)
EmptyObj == ObjV(<<>>)
NestedTool == ObjV(<<Member(<<"a">>, BashNoArgs)>>)

\* a backend's own formatting of an object: no space after ':' and ','
RECURSIVE Compact(_)
RECURSIVE CompactMembers(_, _)

Compact(x) ==
    IF x.t = "obj" THEN <<LB>> \o CompactMembers(x.v, 1) \o <<RB>> ELSE Dumps(x)

CompactMembers(ms, i) ==
    IF i > Len(ms) THEN <<>>
    ELSE <<QT>> \o ms[i].k \o <<QT, COLON>> \o Compact(ms[i].val)
         \o (IF i < Len(ms) THEN <<COMMA>> ELSE <<>>)
         \o CompactMembers(ms, i + 1)

\* requests that name a registered tool with the arguments it takes
ValidRequests == {Dumps(BashLs), Compact(BashLs), Dumps(ListDir), Dumps(BashBrace)}

\* requests whose execution fails before the handler is entered
RejectedRequests ==
    {Dumps(Nope), Dumps(BashNoArgs), Dumps(BashStrArgs), Dumps(BashNullArgs)}

\* objects whose 'tool' field is empty
EmptyNameRequests == {Dumps(EmptyTool), Dumps(NullTool)}

\* objects without a 'tool' field
OtherObjects == {Dumps(NoTool), Dumps(EmptyObj), Dumps(NestedTool)}

\* prose put before and after an object
Prose(pre, post) == [pre |-> pre, post |-> post]

NoProse == Prose(<<>>, <<>>)

PlainProse == {Prose(<<"Sure", SP>>, <<SP, "Done">>), Prose(<<NL>>, <<NL>>)}

BraceProse ==
    {Prose(<<RB, SP>>, <<>>), Prose(<<LB, SP>>, <<>>), Prose(<<RB, LB, SP>>, <<>>),
     Prose(<<>>, <<SP, RB>>), Prose(<<LB, "x", RB, SP>>, <<SP, LB, RB>>)}

Wrap(p, j) == p.pre \o j \o p.post

AllProse == {NoProse} \cup PlainProse \cup BraceProse

\* responses whose brace groups all decode to objects without a 'tool' field
NoToolResponses ==
    {Wrap(p, j) : p \in {NoProse} \cup PlainProse, j \in OtherObjects}
    \cup {Dumps(NoTool) \o <<SP>> \o Dumps(EmptyObj)}

\* responses whose first object with a 'tool' field has an empty one
Shadowing == Dumps(EmptyTool) \o <<SP>> \o Dumps(BashLs)

EmptyNameResponses ==
    {Wrap(p, j) : p \in {NoProse} \cup PlainProse, j \in EmptyNameRequests}
    \cup {Shadowing}

Ok == <<"ok">>

ResponsePool ==
    {Wrap(p, j) : p \in AllProse, j \in ValidRequests}
    \cup {Wrap(p, j) : p \in {NoProse} \cup PlainProse, j \in RejectedRequests}
    \cup NoToolResponses
    \cup EmptyNameResponses
    \cup {Ok, <<>>,
          Dumps(NoTool) \o <<SP>> \o Dumps(BashLs),
          <<LB, "bad", RB, SP>> \o Dumps(BashLs),
          Dumps(BashLs) \o <<SP, "x", SP>> \o Dumps(BashLs),
          <<"x", SP>> \o Dumps(BashLs) \o <<SP>> \o Dumps(ListDir)}

Hi == <<SP, "hi", SP>>

CommandInputs ==
    {<<"/", "clear">>, <<"/", "CLEAR">>, <<"/", "quit">>, <<"/", "Help">>,
     <<"/", "ai">>, <<"/", "ai", SP, "OpenAI">>, <<"/", "ai", SP, "bogus">>,
     <<"/", "bogus">>, <<"/">>}

EmptyInputs == {<<>>, <<SP, NL>>}

\* bounds on the number of Router.process calls of a run
MaxTurns == 1
MaxCalls == 6
MaxOverlap == 6
MaxSessionCalls == 3

\* calls of Router.process between direct calls of the manager
MaxManagerCalls == 1

\* calls of Router.process in a run of the whole application
MaxLifeCalls == 2

\* a run of a few calls with every input and every response
ShortRun ==
    [uids |-> Sessions, inputs |-> {Hi} \cup CommandInputs \cup EmptyInputs,
     responses |-> ResponsePool, results |-> ResultChoices, exits |-> BOOLEAN,
     faults |-> BOOLEAN, loop |-> FALSE,
     maxcalls |-> MaxTurns, ntasks |-> 1, configured |-> {"openai"}]

\* a long conversation in one session
LongRun ==
    [uids |-> {"console"}, inputs |-> {Hi, <<"/", "clear">>, <<>>},
     responses |-> {Ok, Dumps(BashLs), <<"Sure", SP>> \o Dumps(BashLs)},
     results |-> {1}, exits |-> {TRUE}, faults |-> BOOLEAN, loop |-> TRUE,
     maxcalls |-> MaxCalls, ntasks |-> 1, configured |-> {"openai"}]

\* two adapter tasks that call Router.process for one session, as two
\* Telegram updates of one user do
OverlapRun ==
    [uids |-> {"42"}, inputs |-> {Hi},
     responses |-> {Ok, Dumps(BashLs)},
     results |-> {1}, exits |-> {TRUE}, faults |-> {FALSE}, loop |-> FALSE,
     maxcalls |-> MaxOverlap, ntasks |-> 2, configured |-> {"openai"}]

\* the console user and a Telegram user at the same time, on the one event
\* loop of AIVA.run
SessionsRun ==
    [uids |-> Sessions,
     inputs |-> {Hi, <<"/", "ai", SP, "OpenAI">>, <<"/", "ai", SP, "OLLAMA">>,
                 <<"/", "clear">>},
     responses |-> {Ok, Dumps(BashLs)},
     results |-> {1}, exits |-> BOOLEAN, faults |-> {FALSE}, loop |-> FALSE,
     maxcalls |-> MaxSessionCalls, ntasks |-> 2, configured |-> {"openai"}]

(***************************************************************************)
(* Specifications                                                          *)
(***************************************************************************)
\* the state after AIManager.initialize and Router.__init__
InitEnv(e) ==
    /\ env = e
    /\ history = [uid \in Sessions |-> <<>>]
    /\ known = {}
    /\ providers = Initialize(e.configured, {}, DEFAULT_AI).providers
    /\ current = Initialize(e.configured, {}, DEFAULT_AI).current
    /\ app = Serving
    /\ tasks = [t \in 1..e.ntasks |-> IdleTask]
    /\ calls = 0

Init == InitEnv(ShortRun)

InitLong == InitEnv(LongRun)

Next ==
    \E t \in DOMAIN tasks :
        \/ Process(t)
        \/ GenerateReturn(t)
        \/ ToolReturn(t)
        \/ GenerateRaise(t)
        \/ Deliver(t)

Spec == Init /\ [][Next]_vars

SpecLong == InitLong /\ [][Next]_vars

InitOverlap == InitEnv(OverlapRun)

SpecOverlap == InitOverlap /\ [][Next]_vars

InitSessions == InitEnv(SessionsRun)

SpecSessions == InitSessions /\ [][Next]_vars

\* a handler that returns lets the coroutine that called it go on
SpecFair == Init /\ [][Next]_vars /\ WF_vars(ToolReturn(1))

\* the configurations of the manager: the keys that are set, the providers
\* whose construction raises, the configured default; the manager is called
\* directly and through the router
ProviderNames == {"openai", "gemini", "ollama"}

DefaultNames == {"ollama", "openai", "gemini", "bogus"}

ManagerRuns ==
    {[uids |-> {"console"}, inputs |-> {Hi, <<"/", "ai", SP, "OpenAI">>},
      responses |-> {Ok, Dumps(BashLs)}, results |-> {1}, exits |-> {TRUE},
      faults |-> BOOLEAN, loop |-> FALSE, maxcalls |-> MaxManagerCalls,
      ntasks |-> 1, configured |-> c, failing |-> f, default_ai |-> d,
      telegram |-> FALSE] :
        c \in SUBSET {"openai", "gemini"}, f \in SUBSET ProviderNames,
        d \in DefaultNames}

\* the manager after an initialize that did not raise
InitManager ==
    /\ env \in {e \in ManagerRuns :
                    Initialize(e.configured, e.failing, e.default_ai).ok}
    /\ history = [uid \in Sessions |-> <<>>]
    /\ known = {}
    /\ providers = Initialize(env.configured, env.failing, env.default_ai).providers
    /\ current = Initialize(env.configured, env.failing, env.default_ai).current
    /\ app = Serving
    /\ tasks = [t \in 1..env.ntasks |-> IdleTask]
    /\ calls = 0

NextManager ==
    \/ Next
    \/ \E provider \in DefaultNames : SwitchProviderCall(provider)
    \/ \E raising \in SUBSET {providers[i] : i \in 1..Len(providers)} :
          CleanupCall(raising)

SpecManager == InitManager /\ [][NextManager]_vars

\* the runs of the whole application, from the start of AIVA.run
LifeRuns ==
    {[uids |-> IF tg THEN Sessions ELSE {"console"},
      inputs |-> {Hi, <<"/", "quit">>, <<"/", "ai", SP, "OpenAI">>},
      responses |-> {Ok, Dumps(BashLs)},
      results |-> {1}, exits |-> {TRUE}, faults |-> BOOLEAN, loop |-> FALSE,
      maxcalls |-> MaxLifeCalls, ntasks |-> 1, configured |-> c,
      failing |-> f, default_ai |-> d, telegram |-> tg] :
        c \in SUBSET {"openai", "gemini"}, f \in SUBSET ProviderNames,
        d \in DefaultNames, tg \in BOOLEAN}

\* AIVA.run after the signal handlers are installed (line 229)
InitLife ==
    /\ env \in LifeRuns
    /\ history = [uid \in Sessions |-> <<>>]
    /\ known = {}
    /\ providers = <<>>
    /\ current = ""
    /\ app = [Serving EXCEPT !.phase = "start"]
    /\ tasks = [t \in 1..env.ntasks |-> IdleTask]
    /\ calls = 0

NextLife == Startup \/ Next \/ SignalHandler \/ Finally

SpecLife == InitLife /\ [][NextLife]_vars

\* the event loop runs every coroutine that can go on
SpecLifeFair ==
    /\ InitLife
    /\ [][NextLife]_vars
    /\ WF_vars(Startup)
    /\ WF_vars(Finally)
    /\ WF_vars(GenerateReturn(1))
    /\ WF_vars(ToolReturn(1))
    /\ WF_vars(Deliver(1))

(***************************************************************************)
(* Properties                                                              *)
(***************************************************************************)
Done(t) == tasks[t].pc = "done"

\* the call went down the conversational path (it called the backend)
Conversational(t) == tasks[t].generated # <<>>

\* the second generate call of line 137 is never reached: the residual
\* text of lines 121-125 is never empty
NeverSummarize == \A t \in DOMAIN tasks : tasks[t].pc # "summarize"

\* C1: whenever a Router.process call has returned, every session's history
\* holds at most MAX_HISTORY turns
C1_HistoryBounded ==
    (\E t \in DOMAIN tasks : Done(t))
        => \A uid \in Sessions : Len(history[uid]) <= MAX_HISTORY

\* C1 witness: a call has returned after appending to a history that the
\* new turns push past MAX_HISTORY
C1_Trimmed ==
    \E t \in DOMAIN tasks :
        /\ Done(t)
        /\ Len(tasks[t].before) + Len(tasks[t].appended) > MAX_HISTORY
        /\ Len(history[tasks[t].uid]) = MAX_HISTORY

\* C2: a call whose generate call raised returns the failure 'Generation
\* failed' and leaves the session's turns as they were; no call that
\* returns a failure has appended a turn
C2_GenerationFailure ==
    \A t \in DOMAIN tasks :
        /\ Done(t) /\ tasks[t].failed
              => /\ tasks[t].result = Failure(GEN_FAILED)
                 /\ tasks[t].appended = <<>>
                 /\ tasks[t].after = tasks[t].before
        /\ Done(t) /\ tasks[t].appended # <<>> => tasks[t].result.success

\* C2 witness: generation failed in a session that already holds turns
C2_FailedWithHistory ==
    \E t \in DOMAIN tasks :
        Done(t) /\ tasks[t].failed /\ tasks[t].before # <<>>

\* C3: when the requested tool returned, the call succeeds and appends the
\* user text, the raw response, the tool-result text and the final response
\* (which is the returned response), in this order, and then trims
C3_ToolTurn ==
    \A t \in DOMAIN tasks :
        Done(t) /\ tasks[t].tool_ok
            => /\ tasks[t].result.success
               /\ tasks[t].result.keys = {"response"}
               /\ tasks[t].text \in {Strip(input) : input \in env.inputs}
               /\ tasks[t].appended =
                    <<Turn("user", tasks[t].text),
                      Turn("assistant", tasks[t].response),
                      Turn("user", <<"Tool '">> \o tasks[t].tool_name
                                   \o <<"' result: ">> \o tasks[t].tool_result_str),
                      Turn("assistant", tasks[t].result.response)>>
               /\ tasks[t].after =
                    LastN(tasks[t].before \o tasks[t].appended, MAX_HISTORY)

\* C3 witness: a tool turn that the trim cut
C3_ToolTurnTrimmed ==
    \E t \in DOMAIN tasks :
        /\ Done(t) /\ tasks[t].tool_ok
        /\ Len(tasks[t].before) + 4 > MAX_HISTORY

\* the whole response is one object with a 'tool' field
OnlyRequest(response) ==
    /\ LooksLikeJson(response)
    /\ Loads(response).ok
    /\ IsObj(Loads(response).val)
    /\ Has(Loads(response).val, TOOL)

\* the call got a response from the backend
Answered(t) == Done(t) /\ Conversational(t) /\ ~tasks[t].failed

\* the two turns of a plain answer
PlainTurns(t) ==
    <<Turn("user", tasks[t].text), Turn("assistant", tasks[t].response)>>

\* C4: when the response is only the request and the tool returned, the
\* call makes a second generate call after the execution, with the summary
\* prompt and the history that holds the three new turns, and the output of
\* that call is the returned response and the last turn appended
C4_SummaryCall ==
    \A t \in DOMAIN tasks :
        Done(t) /\ tasks[t].tool_ok /\ OnlyRequest(tasks[t].response)
            => /\ Len(tasks[t].generated) = 2
               /\ tasks[t].generated[2].message =
                    SummaryPrompt(tasks[t].tool_name, tasks[t].tool_result_str)
               /\ tasks[t].generated[2].history =
                    tasks[t].before \o SubSeq(tasks[t].appended, 1, 3)
               /\ tasks[t].appended[4].content = tasks[t].result.response

\* C5: when the execution of the requested tool fails, the call returns a
\* failure with an error message, appends no turn and makes no further
\* generate call
C5_ToolFailure ==
    \A t \in DOMAIN tasks :
        Done(t) /\ tasks[t].executed # <<>> /\ ~tasks[t].tool_ok
            => /\ ~tasks[t].result.success
               /\ tasks[t].result.keys = {"error"}
               /\ tasks[t].result.error # <<>>
               /\ tasks[t].appended = <<>>
               /\ tasks[t].after = tasks[t].before
               /\ Len(tasks[t].generated) = 1

\* C5 witness: the handler of a registered tool raised
C5_HandlerFault ==
    \E t \in DOMAIN tasks :
        Done(t) /\ tasks[t].result.error = TOOL_ERROR("tool fault")

\* C6: when the response holds no tool call, the call makes one generate
\* call, runs no tool, appends the stripped input and the response, and
\* returns the response unchanged
C6_PlainAnswer ==
    \A t \in DOMAIN tasks :
        Answered(t) /\ ~IsToolCall(FindToolCall(tasks[t].response))
            => /\ Len(tasks[t].generated) = 1
               /\ tasks[t].generated[1].message = tasks[t].text
               /\ tasks[t].executed = <<>>
               /\ tasks[t].text \in {Strip(input) : input \in env.inputs}
               /\ tasks[t].appended = PlainTurns(t)
               /\ tasks[t].result = Success(tasks[t].response)

\* C6 witness: a plain answer with whitespace around it
C6_PlainWithWhitespace ==
    \E t \in DOMAIN tasks :
        /\ Answered(t) /\ ~IsToolCall(FindToolCall(tasks[t].response))
        /\ tasks[t].response # Strip(tasks[t].response)

\* C7: a valid request inside any prose, braces included, is extracted with
\* the tool name and the args extracted when it is the whole response
C7_ProseInsensitive ==
    \A t \in DOMAIN tasks :
        Answered(t) =>
            \A p \in AllProse, j \in ValidRequests :
                tasks[t].response = Wrap(p, j)
                    => /\ tasks[t].executed # <<>>
                       /\ tasks[t].tool_name =
                            NameText(GetDefault(FindToolCall(j).val, TOOL, NullV))
                       /\ tasks[t].tool_args =
                            Dumps(GetDefault(FindToolCall(j).val, ARGS, ObjV(<<>>)))

\* C8: a response whose brace groups all decode to objects without a 'tool'
\* field is a plain answer: no tool runs, the user and assistant turns are
\* appended and the response is returned unchanged
C8_NoToolField ==
    \A t \in DOMAIN tasks :
        Answered(t) /\ tasks[t].response \in NoToolResponses
            => /\ tasks[t].executed = <<>>
               /\ tasks[t].appended = PlainTurns(t)
               /\ tasks[t].result = Success(tasks[t].response)

\* C8 witness: an object without a 'tool' field inside prose
C8_EmbeddedNoTool ==
    \E t \in DOMAIN tasks :
        /\ Answered(t)
        /\ tasks[t].response = <<"Sure", SP>> \o Dumps(NoTool) \o <<SP, "Done">>

\* C9 as stated: an object whose 'tool' field is empty is handled as a plain
\* answer and does not hide a later valid request
C9_EmptyNameAbsent ==
    \A t \in DOMAIN tasks :
        Answered(t) /\ tasks[t].response \in EmptyNameResponses
            => IF tasks[t].response = Shadowing
               THEN tasks[t].executed = <<<<"bash">>>>
               ELSE /\ tasks[t].result = Success(tasks[t].response)
                    /\ tasks[t].appended = PlainTurns(t)

\* C9 amended: an object whose 'tool' field is empty makes the call fail
\* with "Invalid tool format: 'tool' is required"; no tool runs, no turn is
\* appended, and a later valid request in the same response is not run
C9_EmptyNameRejected ==
    \A t \in DOMAIN tasks :
        Answered(t) /\ tasks[t].response \in EmptyNameResponses
            => /\ tasks[t].result = Failure(INVALID_TOOL)
               /\ tasks[t].executed = <<>>
               /\ tasks[t].appended = <<>>
               /\ tasks[t].after = tasks[t].before
               /\ Len(tasks[t].generated) = 1

\* C9 witness: an empty 'tool' field followed by a valid request
C9_Shadowed ==
    \E t \in DOMAIN tasks : Answered(t) /\ tasks[t].response = Shadowing

\* the response without the characters lo..hi
Without(response, lo, hi) ==
    SubSeq(response, 1, lo - 1) \o SubSeq(response, hi + 1, Len(response))

\* C10: for a request found inside mixed text the residual prose is the
\* response without the matched substring, stripped; when the router's
\* re-serialization is not the matched substring the residual prose is
\* empty and the call takes the summarize path
C10_Residual ==
    \A t \in DOMAIN tasks :
        Done(t) /\ tasks[t].tool_ok /\ ~LooksLikeJson(tasks[t].response)
            => \E m \in {ExtractJsonFromText(tasks[t].response)} :
                  IF SubSeq(tasks[t].response, m.lo, m.hi) = Dumps(m.val)
                  THEN tasks[t].text_response =
                          Strip(Without(tasks[t].response, m.lo, m.hi))
                  ELSE /\ tasks[t].text_response = <<>>
                       /\ Len(tasks[t].generated) = 2

Min(a, b) == IF a < b THEN a ELSE b

\* call u appended its turns right after the turns of call t
AppendedAfter(t, u) ==
    /\ tasks[u].after =
          LastN(tasks[t].before \o tasks[t].appended \o tasks[u].appended,
                MAX_HISTORY)
    /\ history[tasks[u].uid] = tasks[u].after
    /\ Len(history[tasks[u].uid]) =
          Min(Len(tasks[t].before) + Len(tasks[t].appended)
                + Len(tasks[u].appended), MAX_HISTORY)

\* C11: when two calls for one session have both returned, the history is
\* the history before them, then the turns of one call, then the turns of
\* the other, cut to the last MAX_HISTORY turns
C11_NoInterleaving ==
    \A t, u \in DOMAIN tasks :
        /\ Done(t) /\ Done(u)
        /\ tasks[t].uid = tasks[u].uid
        /\ tasks[t].id \in tasks[u].inflight
        => AppendedAfter(t, u) \/ AppendedAfter(u, t)

\* C11 witness: two overlapping calls both appended a tool turn, and the
\* sum passes MAX_HISTORY
C11_OverlappedAndCut ==
    \E t, u \in DOMAIN tasks :
        /\ Done(t) /\ Done(u)
        /\ tasks[t].id \in tasks[u].inflight
        /\ tasks[t].tool_ok /\ tasks[u].tool_ok
        /\ Len(tasks[t].generated[1].history) < MAX_HISTORY
        /\ Len(tasks[t].generated[1].history) + 8 > MAX_HISTORY

\* C12: a call that reaches the backend is served by the provider that is
\* current when the call starts, and every generate call of the turn is
\* served by that provider, whatever '/ai' does in the meantime
C12_InFlightProvider ==
    [][\A t \in DOMAIN tasks :
          /\ tasks[t].pc = "idle" /\ tasks'[t].pc = "generate"
                => tasks'[t].generated[1].provider = current
          /\ tasks[t].generated # <<>> /\ tasks'[t].generated # <<>>
                => \A i \in DOMAIN tasks'[t].generated :
                      tasks'[t].generated[i].provider
                          = tasks[t].generated[1].provider]_vars

\* C12 witness: a call returned a response of the provider it started with
\* after another session switched the provider
C12_SwitchedInFlight ==
    \E t \in DOMAIN tasks :
        /\ Done(t) /\ Conversational(t) /\ tasks[t].result.success
        /\ tasks[t].generated[1].provider # current

\* C13: while a tool runs for one session, a call for another session can
\* start, and a call of another session that awaits the backend can take
\* its next step
C13_OtherSessionsRun ==
    \A t, u \in DOMAIN tasks :
        tasks[t].pc = "executing" /\ t # u
            => /\ tasks[u].pc = "generate" /\ tasks[u].uid # tasks[t].uid
                    => ENABLED GenerateReturn(u)
               /\ tasks[u].pc = "idle" /\ calls < env.maxcalls
                    => ENABLED Process(u)

\* C14: a call that entered the bash handler returns
C14_BashEnds ==
    (tasks[1].pc = "executing" /\ tasks[1].tool_name = <<"bash">>)
        ~> (tasks[1].pc = "done")

WhitespaceOnly(s) == \A i \in 1..Len(s) : s[i] \in Whitespace

\* the call is a command
IsCommand(text) == StartsWith(text, "/")

\* the lower-cased command word of a command line, and its arguments
CommandWord(text) ==
    IF Split(Tail(text)) = <<>> THEN <<>> ELSE Lower(Split(Tail(text))[1])

CommandArgs(text) ==
    IF Split(Tail(text)) = <<>> THEN <<>> ELSE Tail(Split(Tail(text)))

\* C15: a call whose input is empty or whitespace returns the failure
\* 'Empty message' at once: no generate call, no tool, no session entry, no
\* change of a history or of the current provider
C15_EmptyInput ==
    [][\A t \in DOMAIN tasks :
          /\ tasks[t].pc = "idle" /\ tasks'[t].pc # "idle"
          /\ ~IsCommand(tasks'[t].text)
          /\ WhitespaceOnly(tasks'[t].input)
          => /\ tasks'[t].pc = "done"
             /\ tasks'[t].result = Failure(EMPTY_MSG)
             /\ tasks'[t].result.error = <<"Empty message">>
             /\ tasks'[t].generated = <<>>
             /\ tasks'[t].executed = <<>>
             /\ UNCHANGED <<history, known, current, providers>>]_vars

\* C15 witness: a whitespace input was refused
C15_WhitespaceRefused ==
    \E t \in DOMAIN tasks :
        /\ Done(t) /\ tasks[t].input = <<SP, NL>>
        /\ tasks[t].result = Failure(EMPTY_MSG)

\* C16: '/clear' returns the success 'History cleared' and leaves the
\* history of the session empty, whatever the session held; a second
\* '/clear' returns the same Result
C16_Clear ==
    \A t \in DOMAIN tasks :
        Done(t) /\ IsCommand(tasks[t].text)
                /\ CommandWord(tasks[t].text) = <<"clear">>
            => /\ tasks[t].result = Success(CLEARED)
               /\ tasks[t].result.response = <<"History cleared">>
               /\ history[tasks[t].uid] = <<>>
               /\ IsCommand(tasks[t].last.text)
                    /\ CommandWord(tasks[t].last.text) = <<"clear">>
                    => tasks[t].last.result = tasks[t].result

\* C16 witness: '/clear' returned right after '/clear'
C16_ClearedTwice ==
    \E t \in DOMAIN tasks :
        /\ Done(t)
        /\ tasks[t].text = <<"/", "clear">>
        /\ tasks[t].last.text = <<"/", "clear">>
        /\ "console" \in known

\* C17: '/ai <name>' succeeds and makes the lower-cased name the current
\* provider iff it is registered; otherwise it fails with the not-found
\* error that lists the providers in registration order, and the current
\* provider stays
C17_Switch ==
    [][\A t \in DOMAIN tasks :
          /\ tasks[t].pc = "idle" /\ tasks'[t].pc = "done"
          /\ IsCommand(tasks'[t].text)
          /\ CommandWord(tasks'[t].text) = <<"ai">>
          /\ CommandArgs(tasks'[t].text) # <<>>
          => \E name \in {Lower(CommandArgs(tasks'[t].text)[1])} :
                IF \E i \in DOMAIN providers : <<providers[i]>> = name
                THEN /\ tasks'[t].result = Success(<<"Switched to ">> \o name)
                     /\ current' = name[1]
                ELSE /\ tasks'[t].result =
                          Failure(<<"AI provider not found", ". Available: ">>
                                  \o Join([i \in DOMAIN providers |-> <<providers[i]>>]))
                     /\ current' = current]_vars

\* C17 witness: a name that is not registered was refused
C17_NotFound ==
    \E t \in DOMAIN tasks :
        /\ Done(t) /\ tasks[t].text = <<"/", "ai", SP, "bogus">>
        /\ ~tasks[t].result.success
        /\ Len(providers) = 2

\* C18: '/quit' returns a success whose action is quit and changes nothing
C18_Quit ==
    \A t \in DOMAIN tasks :
        Done(t) /\ IsCommand(tasks[t].text)
                /\ CommandWord(tasks[t].text) = <<"quit">>
            => /\ tasks[t].result = SuccessAction("quit")
               /\ history[tasks[t].uid] = tasks[t].before

\* C19: no call ends with an exception: a call that has ended has returned
\* a Result
C19_NoEscape ==
    \A t \in DOMAIN tasks :
        /\ tasks[t].pc \in {"idle", "generate", "executing", "summarize", "done"}
        /\ Done(t) => /\ tasks[t].result # NoResult
                      /\ tasks[t].result.keys # {}

\* C19 witness: a command handler raised and the call returned a failure
C19_HandlerRaised ==
    \E t \in DOMAIN tasks :
        /\ Done(t)
        /\ tasks[t].result = Failure(COMMAND_FAILED("Router.cmd_quit"))

\* C20: a failure carries an error and neither response nor action; a
\* success carries no error and carries a response or an action; the Result
\* of an input that is not a command carries no action
C20_ResultShape ==
    \A t \in DOMAIN tasks :
        Done(t) =>
            /\ tasks[t].result.success \in BOOLEAN
            /\ ~tasks[t].result.success
                  => /\ tasks[t].result.keys = {"error"}
                     /\ tasks[t].result.error # <<>>
            /\ tasks[t].result.success
                  => /\ "error" \notin tasks[t].result.keys
                     /\ tasks[t].result.keys \cap {"response", "action"} # {}
            /\ ~IsCommand(tasks[t].text) => "action" \notin tasks[t].result.keys

\* C20 witness: a success whose response is the empty text
C20_EmptyResponse ==
    \E t \in DOMAIN tasks :
        /\ Done(t) /\ Conversational(t)
        /\ tasks[t].result.success /\ tasks[t].result.response = <<>>

\* the names of the registered providers
ProviderKeys == {providers[i] : i \in 1..Len(providers)}

\* C21: initialize registers exactly the configured providers whose
\* construction does not fail, in the order of the configuration; it
\* succeeds when at least one is registered and raises otherwise; after a
\* success the current provider is the configured default when that one is
\* registered and the first registered provider otherwise
C21_Initialize ==
    [][(app.phase = "start" /\ app'.phase # "start")
          => LET good == (env.configured \cup {"ollama"}) \ env.failing
                 names == {providers'[i] : i \in 1..Len(providers')}
             IN  /\ names = good
                 /\ Len(providers') = Cardinality(good)
                 /\ \A i, j \in 1..Len(providers') :
                       i < j => \E m, n \in 1..Len(ProviderOrder) :
                                   /\ m < n
                                   /\ ProviderOrder[m] = providers'[i]
                                   /\ ProviderOrder[n] = providers'[j]
                 /\ (app'.phase = "serving") <=> (good # {})
                 /\ (app'.phase = "failed") <=> (good = {})
                 /\ good # {}
                       => current' = IF env.default_ai \in good
                                     THEN env.default_ai
                                     ELSE providers'[1]]_vars

\* C21 witness: the construction of the default provider failed, the other
\* two providers are registered and the first of them is current
C21_PartialFailure ==
    /\ app.phase = "serving" /\ calls = 0
    /\ env.configured = {"openai", "gemini"}
    /\ env.failing = {"openai"} /\ env.default_ai = "openai"
    /\ providers = <<"gemini", "ollama">> /\ current = "gemini"

\* C22: switch_provider returns true exactly for a registered name; on true
\* the current provider is that name, on false it is the one before; the
\* current provider is always one of the registered providers
C22_SwitchProvider ==
    /\ [](current \in ProviderKeys)
    /\ [][app'.switch # app.switch
            => /\ app'.switch.returned = (app'.switch.name \in ProviderKeys)
               /\ current' = IF app'.switch.returned
                             THEN app'.switch.name
                             ELSE current]_vars

\* C22 witness: a switch to an unknown name returned false after an '/ai'
\* command had changed the current provider
C22_SwitchRefused ==
    /\ app.switch.called /\ ~app.switch.returned
    /\ app.switch.name = "bogus" /\ app.switch.from = "openai"
    /\ env.default_ai = "gemini" /\ current = "openai"
    /\ \E t \in DOMAIN tasks :
          Done(t) /\ tasks[t].result = Success(<<"Switched to ", "openai">>)

\* C23: cleanup calls the cleanup of every registered provider, in order,
\* whichever of them raise, logs the ones that raised and does not raise
C23_Cleanup ==
    app.cleanup.called
        => /\ app.cleanup.attempted = providers
           /\ app.cleanup.errors
                 = SelectSeq(providers, LAMBDA p : p \in app.cleanup.raising)
           /\ ~app.cleanup.raised

\* C23 witness: the cleanup of the first of three providers raised and the
\* other two were still cleaned up
C23_FirstRaised ==
    /\ app.cleanup.called
    /\ Len(providers) = 3
    /\ app.cleanup.raising = {providers[1]}
    /\ app.cleanup.attempted = providers

\* the number of '{' less the number of '}' among the first k symbols
Depth(text, k) ==
    Cardinality({i \in 1..k : text[i] = LB}) - Cardinality({i \in 1..k : text[i] = RB})

\* the top-level brace groups of a text: a '{' at depth zero up to the first
\* '}' that brings the depth back to zero
Groups(text) ==
    {g \in {i \in 1..Len(text) : text[i] = LB} \X {i \in 1..Len(text) : text[i] = RB} :
        /\ g[1] < g[2]
        /\ Depth(text, g[1] - 1) = 0
        /\ Depth(text, g[2]) = 0
        /\ \A k \in g[1]..(g[2] - 1) : Depth(text, k) > 0}

\* the group decodes to an object with a 'tool' field
Decodes(text, g) ==
    LET v == Loads(SubSeq(text, g[1], g[2]))
    IN  v.ok /\ IsObj(v.val) /\ Has(v.val, TOOL)

\* the response is not taken whole at lines 95-100, so that it is scanned
Scanned(response) ==
    ~(LooksLikeJson(response) /\ Loads(response).ok /\ Truthy(Loads(response).val))

\* C24: when a response is scanned, the request handled is the earliest
\* top-level brace group that decodes to an object with a 'tool' field;
\* without such a group the response is a plain answer, whatever the other
\* groups hold; no call executes more than one tool
C24_EarliestGroup ==
    \A t \in DOMAIN tasks :
        Answered(t) =>
            /\ Len(tasks[t].executed) <= 1
            /\ Scanned(tasks[t].response) =>
                  LET good == {g \in Groups(tasks[t].response) :
                                    Decodes(tasks[t].response, g)}
                  IN  IF good = {}
                      THEN /\ tasks[t].executed = <<>>
                           /\ tasks[t].result = Success(tasks[t].response)
                      ELSE LET g == CHOOSE g \in good : \A h \in good : g[1] <= h[1]
                               v == Loads(SubSeq(tasks[t].response, g[1], g[2])).val
                           IN  /\ tasks[t].tool_name
                                     = NameText(GetDefault(v, TOOL, NullV))
                               /\ tasks[t].tool_args
                                     = Dumps(GetDefault(v, ARGS, ObjV(<<>>)))
                               /\ \A i \in 1..Len(tasks[t].executed) :
                                     tasks[t].executed[i] = tasks[t].tool_name

\* C24 witness: the response holds prose, a bash request and a list_dir
\* request; only bash was executed
C24_SecondIgnored ==
    \E t \in DOMAIN tasks :
        /\ Answered(t)
        /\ tasks[t].response
              = <<"x", SP>> \o Dumps(BashLs) \o <<SP>> \o Dumps(ListDir)
        /\ tasks[t].executed = <<<<"bash">>>>

\* C25: a request inside prose is handled with its own tool name and args
\* when its args are a nested object and when a string value of the args
\* holds a brace
C25_BracesInValues ==
    \A t \in DOMAIN tasks :
        Answered(t) =>
            \A p \in PlainProse, request \in {BashLs, BashBrace} :
                tasks[t].response = Wrap(p, Dumps(request))
                    => /\ tasks[t].executed = <<<<"bash">>>>
                       /\ tasks[t].tool_name = <<"bash">>
                       /\ tasks[t].tool_args
                             = Dumps(GetDefault(request, ARGS, ObjV(<<>>)))

\* the four turns of a tool turn
ToolTurns(t) ==
    <<Turn("user", tasks[t].text),
      Turn("assistant", tasks[t].response),
      Turn("user", <<"Tool '">> \o tasks[t].tool_name
                   \o <<"' result: ">> \o tasks[t].tool_result_str),
      Turn("assistant", tasks[t].result.response)>>

\* C26: a call that has returned, with a success or with a failure, has
\* appended nothing, or the two turns of a plain answer, or the four turns
\* of a tool turn; a call that returned a failure has appended nothing; the
\* history of a conversational call has grown by the appended turns when
\* the trim did not cut
C26_AllOrNothing ==
    \A t \in DOMAIN tasks :
        Done(t) =>
            /\ \/ tasks[t].appended = <<>>
               \/ tasks[t].appended = PlainTurns(t)
               \/ tasks[t].appended = ToolTurns(t)
            /\ ~tasks[t].result.success => tasks[t].appended = <<>>
            /\ (/\ Conversational(t)
                /\ Len(tasks[t].before) + Len(tasks[t].appended) <= MAX_HISTORY)
                  => tasks[t].after = tasks[t].before \o tasks[t].appended

\* C26 witness: a call whose tool was entered and raised returned a failure
\* and left the history as it was
C26_FailedToolTurn ==
    \E t \in DOMAIN tasks :
        /\ Done(t) /\ Conversational(t)
        /\ tasks[t].executed # <<>> /\ ~tasks[t].tool_ok
        /\ ~tasks[t].result.success
        /\ tasks[t].after = tasks[t].before

\* C27: after a successful conversational call the history is the history
\* before it followed by the appended turns, without its oldest turns when
\* these are more than MAX_HISTORY: turn i from the end of the one is turn i
\* from the end of the other; at most MAX_HISTORY turns are left whole
C27_DropsOldest ==
    \A t \in DOMAIN tasks :
        Answered(t) /\ tasks[t].result.success =>
            LET all == tasks[t].before \o tasks[t].appended
                kept == Min(Len(all), MAX_HISTORY)
            IN  /\ Len(tasks[t].after) = kept
                /\ \A i \in 0..(kept - 1) :
                      tasks[t].after[Len(tasks[t].after) - i] = all[Len(all) - i]
                /\ Len(all) <= MAX_HISTORY => tasks[t].after = all
                /\ history[tasks[t].uid] = tasks[t].after

\* C27 witness: a plain answer in a session that held MAX_HISTORY turns
\* pushed the two oldest turns out
C27_TwoDropped ==
    \E t \in DOMAIN tasks :
        /\ Answered(t)
        /\ Len(tasks[t].before) = MAX_HISTORY
        /\ tasks[t].appended = PlainTurns(t)
        /\ tasks[t].after = SubSeq(tasks[t].before, 3, MAX_HISTORY) \o PlainTurns(t)

\* the session a step of call t works for
StepUid(t) == IF tasks[t].pc = "idle" THEN tasks'[t].uid ELSE tasks[t].uid

\* C28: a step of a call for one session leaves the history of every other
\* session as it is, and the history handed to the backend by a call is the
\* history of the session of the call
C28_Isolation ==
    [][\A t \in DOMAIN tasks :
          /\ tasks'[t] # tasks[t]
                => \A uid \in Sessions \ {StepUid(t)} : history'[uid] = history[uid]
          /\ tasks[t].pc = "idle" /\ tasks'[t].pc = "generate"
                => tasks'[t].generated[1].history = history[tasks'[t].uid]]_vars

\* C28 witness: the two sessions hold different histories after a tool turn
\* of the one, a plain answer of the other and a '/clear' of the first
C28_OtherKept ==
    /\ history["console"] = <<>>
    /\ Len(history["42"]) = 2
    /\ \E t \in DOMAIN tasks :
          /\ Done(t) /\ tasks[t].uid = "console"
          /\ tasks[t].text = <<"/", "clear">>
          /\ Len(tasks[t].before) = 4

\* C29: '/help' returns a success whose response is the help text and
\* leaves the history and the current provider as they are
C29_Help ==
    [][\A t \in DOMAIN tasks :
          (/\ tasks[t].pc = "idle" /\ tasks'[t].pc = "done"
           /\ IsCommand(tasks'[t].text)
           /\ CommandWord(tasks'[t].text) = <<"help">>)
             => /\ tasks'[t].result = Success(HELP)
                /\ history' = history
                /\ current' = current]_vars

\* C30: once a signal has been handled, AIVA.run reaches the end of its
\* finally clause, with AIManager.cleanup run
C30_Shutdown ==
    (~app.aiva_running) ~> (app.phase = "exited" /\ app.cleanup.called)

====
